---- MODULE Spec2Model ----
(***************************************************************************)
(* Model of snippets/code/python/fastapi-basic.py: a FastAPI application   *)
(* with two public routes, two routes protected by a bearer-token          *)
(* dependency, and two pydantic schemas.                                   *)
(*                                                                         *)
(* Python str values are sequences of one-character strings.               *)
(***************************************************************************)
EXTENDS Integers, Sequences, FiniteSets, TLC

VARIABLES
    procs,   \* one record per request the server has accepted, in order of
             \* arrival: the request, its coroutine's position and results
    log,     \* the records emitted through logger.info, oldest first
    arg,     \* direct call of verify_token: the credentials passed
    ret      \* direct call of verify_token: its outcome

vars == <<procs, log, arg, ret>>

(***************************************************************************)
(* Bounds of the model.                                                    *)
(***************************************************************************)
MaxRequests == 2     \* requests the server accepts in one behaviour
MaxHistory == 3      \* requests accepted when histories are compared
MaxEmailLen == 6     \* longest email submitted to the schema
MaxOver == 2         \* how far past max_length a submitted username goes
MaxId == 20          \* user ids range over -MaxId .. MaxId
MaxPad == 1          \* longest padding put around a token

(***************************************************************************)
(* Strings.                                                                *)
(***************************************************************************)
Range(s) == {s[k] : k \in 1..Len(s)}

SeqsUpTo(A, n) == UNION {[1..k -> A] : k \in 0..n}

Rep(c, n) == [k \in 1..n |-> c]

\* str.lower on the characters the model uses
LowerChar(c) ==
    CASE c = "B" -> "b"
      [] c = "A" -> "a"
      [] c = "S" -> "s"
      [] c = "I" -> "i"
      [] c = "C" -> "c"
      [] c = "E" -> "e"
      [] c = "R" -> "r"
      [] c = "V" -> "v"
      [] c = "T" -> "t"
      [] OTHER -> c

Lower(s) == [k \in 1..Len(s) |-> LowerChar(s[k])]

\* str.partition(" "): the text before the first space and the text after it
Partition(s) ==
    LET sp == {k \in 1..Len(s) : s[k] = " "}
    IN  IF sp = {}
        THEN <<s, <<>>>>
        ELSE LET k == CHOOSE m \in sp : \A n \in sp : m <= n
             IN  <<SubSeq(s, 1, k - 1), SubSeq(s, k + 1, Len(s))>>

(***************************************************************************)
(* Responses.  An HTTPException becomes a response with its status code,   *)
(* the body {"detail": detail} and its headers.                            *)
(***************************************************************************)
None == [none |-> TRUE]

HTTP_200_OK == 200
HTTP_400_BAD_REQUEST == 400
HTTP_401_UNAUTHORIZED == 401
HTTP_403_FORBIDDEN == 403
HTTP_422_UNPROCESSABLE_ENTITY == 422

HTTPException(status_code, detail, headers) ==
    [status |-> status_code, body |-> [detail |-> detail], headers |-> headers]

JSONResponse(content) ==
    [status |-> HTTP_200_OK, body |-> content, headers |-> {}]

RequestValidationError ==
    [status |-> HTTP_422_UNPROCESSABLE_ENTITY,
     body |-> [detail |-> "validation error"], headers |-> {}]

UserResponse(id, username, email) ==
    [id |-> id, username |-> username, email |-> email]

(***************************************************************************)
(* security = HTTPBearer(): reads the Authorization header, splits it at   *)
(* the first space into scheme and credentials, answers 403 when any of    *)
(* the three is empty or the scheme is not "bearer" in any case, and       *)
(* otherwise hands the credentials on.                                     *)
(***************************************************************************)
bearer == <<"b", "e", "a", "r", "e", "r">>

security(authorization) ==
    IF ~authorization.present
    THEN [raised |-> TRUE, credentials |-> <<>>,
          exc |-> HTTPException(HTTP_403_FORBIDDEN, "Not authenticated", {})]
    ELSE LET scheme == Partition(authorization.value)[1]
             credentials == Partition(authorization.value)[2]
         IN  IF authorization.value = <<>> \/ scheme = <<>> \/ credentials = <<>>
             THEN [raised |-> TRUE, credentials |-> <<>>,
                   exc |-> HTTPException(HTTP_403_FORBIDDEN, "Not authenticated", {})]
             ELSE IF Lower(scheme) # bearer
             THEN [raised |-> TRUE, credentials |-> <<>>,
                   exc |-> HTTPException(HTTP_403_FORBIDDEN,
                                         "Invalid authentication credentials", {})]
             ELSE [raised |-> FALSE, credentials |-> credentials, exc |-> None]

(***************************************************************************)
(* verify_token                                                            *)
(***************************************************************************)
valid_token == <<"v", "a", "l", "i", "d", "-", "t", "o", "k", "e", "n">>

\* compares without regard to case
verify_token_anycase(credentials) ==
    LET token == credentials
    IN  IF token = <<>> \/ Lower(token) # valid_token
        THEN [raised |-> TRUE, value |-> <<>>,
              exc |-> HTTPException(HTTP_401_UNAUTHORIZED,
                                    "Invalid authentication credentials",
                                    {<<"WWW-Authenticate", "Bearer">>})]
        ELSE [raised |-> FALSE, value |-> token, exc |-> None]

\* rejects the empty token only
verify_token_nonempty(credentials) ==
    LET token == credentials
    IN  IF token = <<>>
        THEN [raised |-> TRUE, value |-> <<>>,
              exc |-> HTTPException(HTTP_401_UNAUTHORIZED,
                                    "Invalid authentication credentials",
                                    {<<"WWW-Authenticate", "Bearer">>})]
        ELSE [raised |-> FALSE, value |-> token, exc |-> None]

verify_token(credentials) ==
    LET token == credentials
    IN  IF token = <<>> \/ token # valid_token
        THEN [raised |-> TRUE, value |-> <<>>,
              exc |-> HTTPException(HTTP_401_UNAUTHORIZED,
                                    "Invalid authentication credentials",
                                    {<<"WWW-Authenticate", "Bearer">>})]
        ELSE [raised |-> FALSE, value |-> token, exc |-> None]

(***************************************************************************)
(* The pydantic schema UserCreate.  A regex constraint is applied with     *)
(* re.match: the pattern is matched from the start of the value, with      *)
(* backtracking, and "$" matches at the end of the value or just before a  *)
(* final newline.                                                          *)
(***************************************************************************)
NL == "\n"

min_length == 3
max_length == 50

\* r'^[^@]+@[^@]+\.[^@]+$'
email_regex ==
    << [kind |-> "plus_not", ch |-> "@"],
       [kind |-> "lit",      ch |-> "@"],
       [kind |-> "plus_not", ch |-> "@"],
       [kind |-> "lit",      ch |-> "."],
       [kind |-> "plus_not", ch |-> "@"] >>

RECURSIVE MatchAt(_, _, _, _)
MatchAt(pat, p, s, i) ==
    IF p > Len(pat)
    THEN i = Len(s) + 1 \/ (i = Len(s) /\ s[i] = NL)
    ELSE IF pat[p].kind = "lit"
    THEN i <= Len(s) /\ s[i] = pat[p].ch /\ MatchAt(pat, p + 1, s, i + 1)
    ELSE \E j \in (i + 1)..(Len(s) + 1) :
            /\ \A k \in i..(j - 1) : s[k] # pat[p].ch
            /\ MatchAt(pat, p + 1, s, j)

re_match(pat, s) == MatchAt(pat, 1, s, 1)

username_ok(username) ==
    Len(username) >= min_length /\ Len(username) <= max_length

\* the pattern without its final "$"
email_ok_unanchored(email) ==
    \E k \in 0..Len(email) : re_match(email_regex, SubSeq(email, 1, k))

email_ok(email) == re_match(email_regex, email)

UserCreate(payload) ==
    IF username_ok(payload.username) /\ email_ok(payload.email)
    THEN [valid |-> TRUE, username |-> payload.username, email |-> payload.email]
    ELSE [valid |-> FALSE, username |-> <<>>, email |-> <<>>]

(***************************************************************************)
(* Routes and requests.                                                    *)
(***************************************************************************)
ROOT == "GET /"
HEALTH == "GET /health"
CREATE_USER == "POST /users"
GET_USER == "GET /users/{user_id}"

Routes == {ROOT, HEALTH, CREATE_USER, GET_USER}

\* GET /health given the token dependency as well
Dependencies_health(route) ==
    IF route \in {CREATE_USER, GET_USER, "GET /health"} THEN {"verify_token"} ELSE {}

\* the Depends(...) parameters of each route's handler
Dependencies(route) ==
    IF route \in {CREATE_USER, GET_USER} THEN {"verify_token"} ELSE {}

NoAuthorization == [present |-> FALSE, value |-> <<>>]
Authorization(value) == [present |-> TRUE, value |-> value]

Bearer == <<"B", "e", "a", "r", "e", "r">>
Basic == <<"B", "a", "s", "i", "c">>
Header(scheme, token) == scheme \o <<" ">> \o token

NoPath == [int |-> FALSE, val |-> 0]
IntPath(n) == [int |-> TRUE, val |-> n]
NoBody == [username |-> <<>>, email |-> <<>>]

Request(route, authorization, user_id, user) ==
    [route |-> route, authorization |-> authorization,
     user_id |-> user_id, user |-> user]

RequestsOver(auths, paths, bodies, routes) ==
       {Request(r, a, NoPath, NoBody) : r \in routes \cap {ROOT, HEALTH}, a \in auths}
    \cup {Request(CREATE_USER, a, NoPath, b) :
              a \in (IF CREATE_USER \in routes THEN auths ELSE {}), b \in bodies}
    \cup {Request(GET_USER, a, p, NoBody) :
              a \in (IF GET_USER \in routes THEN auths ELSE {}), p \in paths}

(***************************************************************************)
(* The server.  A request is served in steps, each of which the event loop *)
(* may interleave with the steps of other requests: the dependencies       *)
(* (security, then verify_token), the parameters (path and body), and the  *)
(* route's handler, which answers.                                         *)
(***************************************************************************)
Accepted(r) ==
    [pc |-> IF Dependencies(r.route) # {} THEN "security" ELSE "params",
     req |-> r, credentials |-> <<>>, token |-> <<>>,
     resp |-> None, trace |-> <<>>]

Answer(p, fn, response) ==
    [p EXCEPT !.pc = "done", !.resp = response, !.trace = Append(@, fn)]

Init ==
    /\ procs = <<>>
    /\ log = <<>>
    /\ arg = <<>>
    /\ ret = None

Receive(U, limit) ==
    /\ Len(procs) < limit
    /\ \E r \in U : procs' = Append(procs, Accepted(r))
    /\ UNCHANGED <<log, arg, ret>>

HTTPBearer(i) ==
    LET p == procs[i]
        r == security(p.req.authorization)
    IN  /\ p.pc = "security"
        /\ procs' = [procs EXCEPT ![i] =
                IF r.raised
                THEN Answer(p, "security", r.exc)
                ELSE [p EXCEPT !.pc = "verify_token",
                               !.credentials = r.credentials,
                               !.trace = Append(@, "security")]]
        /\ UNCHANGED <<log, arg, ret>>

VerifyToken(i) ==
    LET p == procs[i]
        r == verify_token(p.credentials)
    IN  /\ p.pc = "verify_token"
        /\ procs' = [procs EXCEPT ![i] =
                IF r.raised
                THEN Answer(p, "verify_token", r.exc)
                ELSE [p EXCEPT !.pc = "params",
                               !.token = r.value,
                               !.trace = Append(@, "verify_token")]]
        /\ UNCHANGED <<log, arg, ret>>

ParamsValid(r) ==
    CASE r.route = CREATE_USER -> UserCreate(r.user).valid
      [] r.route = GET_USER -> r.user_id.int
      [] OTHER -> TRUE

SolveParams(i) ==
    LET p == procs[i]
    IN  /\ p.pc = "params"
        /\ procs' = [procs EXCEPT ![i] =
                IF ParamsValid(p.req)
                THEN [p EXCEPT !.pc = "endpoint"]
                ELSE Answer(p, "validation", RequestValidationError)]
        /\ UNCHANGED <<log, arg, ret>>

root_body == [message |-> "Welcome to DevHub API"]

root(i) ==
    LET p == procs[i]
    IN  /\ p.pc = "endpoint"
        /\ p.req.route = ROOT
        /\ procs' = [procs EXCEPT ![i] = Answer(p, "root", JSONResponse(root_body))]
        /\ UNCHANGED <<log, arg, ret>>

health_body == [status |-> "healthy", service |-> "devhub-api"]

health_check(i) ==
    LET p == procs[i]
    IN  /\ p.pc = "endpoint"
        /\ p.req.route = HEALTH
        /\ procs' = [procs EXCEPT ![i] =
                Answer(p, "health_check", JSONResponse(health_body))]
        /\ UNCHANGED <<log, arg, ret>>

\* username and email passed in each other's place
create_user_result_swapped(user) ==
    UserResponse(1, user.email, user.username)

\* the id counts the users created so far
create_user_result_counted(user) ==
    UserResponse(Len(log) + 1, user.username, user.email)

create_user_result(user) ==
    UserResponse(1, user.username, user.email)

create_user(i) ==
    LET p == procs[i]
        user == UserCreate(p.req.user)
    IN  /\ p.pc = "endpoint"
        /\ p.req.route = CREATE_USER
        /\ log' = Append(log, <<"Creating user: ", user.username>>)
        /\ procs' = [procs EXCEPT ![i] =
                Answer(p, "create_user",
                       JSONResponse(create_user_result(user)))]
        /\ UNCHANGED <<arg, ret>>

john_doe == <<"j", "o", "h", "n", "_", "d", "o", "e">>
john_email == <<"j", "o", "h", "n", "@", "e", "x", "a", "m", "p", "l", "e",
                ".", "c", "o", "m">>

\* zero taken for a valid id
get_user_result_zero(user_id) ==
    IF user_id < 0
    THEN HTTPException(HTTP_400_BAD_REQUEST, "Invalid user ID", {})
    ELSE JSONResponse(UserResponse(user_id, john_doe, john_email))

\* answers the user created last, when there is one
get_user_result_created(user_id) ==
    IF user_id <= 0
    THEN HTTPException(HTTP_400_BAD_REQUEST, "Invalid user ID", {})
    ELSE JSONResponse(UserResponse(user_id,
             IF log = <<>> THEN john_doe ELSE log[Len(log)][2], john_email))

get_user_result(user_id) ==
    IF user_id <= 0
    THEN HTTPException(HTTP_400_BAD_REQUEST, "Invalid user ID", {})
    ELSE JSONResponse(UserResponse(user_id, john_doe, john_email))

get_user(i) ==
    LET p == procs[i]
    IN  /\ p.pc = "endpoint"
        /\ p.req.route = GET_USER
        /\ procs' = [procs EXCEPT ![i] =
                Answer(p, "get_user",
                       get_user_result(p.req.user_id.val))]
        /\ UNCHANGED <<log, arg, ret>>

(***************************************************************************)
(* Direct call of verify_token on a credentials value.                     *)
(***************************************************************************)
CallVerifyToken ==
    /\ ret = None
    /\ ret' = verify_token(arg)
    /\ UNCHANGED <<procs, log, arg>>

(***************************************************************************)
(* Inputs.                                                                 *)
(***************************************************************************)
Pads == SeqsUpTo({"x", " "}, MaxPad)

Prefixes(s) == {SubSeq(s, 1, k) : k \in 0..Len(s)}

Capitalised(s) == [k \in 1..Len(s) |-> IF k = 1 THEN "V" ELSE s[k]]

\* the token, its prefixes and a differently cased token, each with padding
\* before and after
Tokens ==
    {a \o t \o b : a \in Pads, b \in Pads,
                   t \in Prefixes(valid_token) \cup {Capitalised(valid_token)}}

wrong_token == <<"x">>

bob == <<"b", "o", "b">>
eve == <<"e", "v", "e">>
good_email == <<"a", "@", "b", ".", "c">>
bad_email == <<"a", "@", "b">>

ServerAuths ==
    {NoAuthorization,
     Authorization(Header(Bearer, valid_token)),
     Authorization(Header(Bearer, <<>>)),
     Authorization(Header(Bearer, wrong_token)),
     Authorization(Header(Basic, valid_token))}

ServerPaths == {IntPath(0), IntPath(1), IntPath(2)}

ServerBodies ==
    {[username |-> bob, email |-> good_email],
     [username |-> eve, email |-> good_email],
     [username |-> bob, email |-> bad_email]}

ServerRequests == RequestsOver(ServerAuths, ServerPaths, ServerBodies, Routes)

\* POST /users over every username length around the two limits and every
\* email up to MaxEmailLen
SchemaAuths ==
    {Authorization(Header(Bearer, valid_token)),
     Authorization(Header(Bearer, wrong_token))}

Usernames ==
    {Rep("u", n) : n \in (0..(min_length + 1))
                         \cup ((max_length - 1)..(max_length + MaxOver))}

Emails == SeqsUpTo({"a", "@", ".", NL}, MaxEmailLen)

SchemaBodies == [username : Usernames, email : Emails]

SchemaRequests == RequestsOver(SchemaAuths, {}, SchemaBodies, {CREATE_USER})

\* GET /users/{user_id} over every id in -MaxId .. MaxId and a path segment
\* that is no integer, under every scheme and token
GetUserAuths ==
    {NoAuthorization}
    \cup {Authorization(Header(s, t)) : s \in {Bearer, bearer, Basic},
                                        t \in {valid_token, wrong_token,
                                               Capitalised(valid_token), <<>>}}

GetUserPaths == {IntPath(n) : n \in (-MaxId)..MaxId} \cup {NoPath}

GetUserRequests == RequestsOver(GetUserAuths, GetUserPaths, {}, {GET_USER})

(***************************************************************************)
(* Specifications.                                                         *)
(***************************************************************************)
Next ==
    \/ Receive(ServerRequests, MaxRequests)
    \/ \E i \in 1..Len(procs) : HTTPBearer(i)
    \/ \E i \in 1..Len(procs) : VerifyToken(i)
    \/ \E i \in 1..Len(procs) : SolveParams(i)
    \/ \E i \in 1..Len(procs) : root(i)
    \/ \E i \in 1..Len(procs) : health_check(i)
    \/ \E i \in 1..Len(procs) : create_user(i)
    \/ \E i \in 1..Len(procs) : get_user(i)

Spec == Init /\ [][Next]_vars

NextSchema ==
    \/ Receive(SchemaRequests, 1)
    \/ \E i \in 1..Len(procs) : HTTPBearer(i)
    \/ \E i \in 1..Len(procs) : VerifyToken(i)
    \/ \E i \in 1..Len(procs) : SolveParams(i)
    \/ \E i \in 1..Len(procs) : create_user(i)

SpecSchema == Init /\ [][NextSchema]_vars

NextGetUser ==
    \/ Receive(GetUserRequests, 1)
    \/ \E i \in 1..Len(procs) : HTTPBearer(i)
    \/ \E i \in 1..Len(procs) : VerifyToken(i)
    \/ \E i \in 1..Len(procs) : SolveParams(i)
    \/ \E i \in 1..Len(procs) : get_user(i)

SpecGetUser == Init /\ [][NextGetUser]_vars

\* a few requests of every kind, so that one request can be served after
\* each of the others
HistoryRequests ==
    {Request(ROOT, NoAuthorization, NoPath, NoBody),
     Request(HEALTH, Authorization(Header(Bearer, valid_token)), NoPath, NoBody),
     Request(CREATE_USER, Authorization(Header(Bearer, valid_token)), NoPath,
             [username |-> bob, email |-> good_email]),
     Request(CREATE_USER, Authorization(Header(Bearer, valid_token)), NoPath,
             [username |-> eve, email |-> good_email]),
     Request(CREATE_USER, Authorization(Header(Bearer, valid_token)), NoPath,
             [username |-> bob, email |-> bad_email]),
     Request(CREATE_USER, Authorization(Header(Bearer, wrong_token)), NoPath,
             [username |-> bob, email |-> good_email]),
     Request(GET_USER, Authorization(Header(Bearer, valid_token)), IntPath(1),
             NoBody),
     Request(GET_USER, Authorization(Header(Bearer, valid_token)), IntPath(0),
             NoBody),
     Request(GET_USER, Authorization(Header(Bearer, wrong_token)), IntPath(1),
             NoBody),
     Request(GET_USER, NoAuthorization, IntPath(1), NoBody)}

NextHistory ==
    \/ Receive(HistoryRequests, MaxHistory)
    \/ \E i \in 1..Len(procs) : HTTPBearer(i)
    \/ \E i \in 1..Len(procs) : VerifyToken(i)
    \/ \E i \in 1..Len(procs) : SolveParams(i)
    \/ \E i \in 1..Len(procs) : root(i)
    \/ \E i \in 1..Len(procs) : health_check(i)
    \/ \E i \in 1..Len(procs) : create_user(i)
    \/ \E i \in 1..Len(procs) : get_user(i)

SpecHistory == Init /\ [][NextHistory]_vars

InitVerify ==
    /\ procs = <<>>
    /\ log = <<>>
    /\ arg \in Tokens
    /\ ret = None

NextVerify == CallVerifyToken

SpecVerify == InitVerify /\ [][NextVerify]_vars

(***************************************************************************)
(* Vocabulary of the properties.                                           *)
(***************************************************************************)
Procs == {procs[i] : i \in 1..Len(procs)}

Called(p, fn) == \E k \in 1..Len(p.trace) : p.trace[k] = fn

Protected(r) == r.route \in {CREATE_USER, GET_USER}

\* the request carries the header "Authorization: Bearer t", in either case
BearerTokenIs(r, t) ==
    /\ r.authorization.present
    /\ \E s \in {Bearer, bearer} : r.authorization.value = s \o <<" ">> \o t

CountOf(c, s) == Cardinality({k \in 1..Len(s) : s[k] = c})

\* exactly one "@", text before it, and after it text, a ".", and text
EmailShape(e) ==
    /\ CountOf("@", e) = 1
    /\ \E k \in 2..Len(e) :
          /\ e[k] = "@"
          /\ \E d \in (k + 2)..(Len(e) - 1) : e[d] = "."

PayloadShape(u) ==
    /\ Len(u.username) >= 3
    /\ Len(u.username) <= 50
    /\ EmailShape(u.email)

Unauthorized ==
    [status |-> 401,
     body |-> [detail |-> "Invalid authentication credentials"],
     headers |-> {<<"WWW-Authenticate", "Bearer">>}]

(***************************************************************************)
(* C1: verify_token returns a token t unchanged exactly when t is          *)
(* "valid-token"; for every other t, the empty one included, it raises     *)
(* HTTP 401 "Invalid authentication credentials" with the header           *)
(* WWW-Authenticate: Bearer and returns nothing.                           *)
(***************************************************************************)
C1_VerifyTokenIsEquality ==
    ret # None =>
        /\ ret.raised <=> arg # valid_token
        /\ ~ret.raised => ret.value = arg
        /\ ret.raised => ret.exc = Unauthorized /\ ret.value = <<>>

C1_Witness ==
    /\ ret # None
    /\ ret.raised
    /\ arg # valid_token
    /\ Lower(arg) = valid_token

(***************************************************************************)
(* C2: GET / and GET /health answer their constant bodies whatever the     *)
(* credentials and whatever was served before, and neither security nor    *)
(* verify_token is called for them.                                        *)
(***************************************************************************)
C2_PublicRoutesOpen ==
    \A p \in Procs :
        /\ p.req.route \in {ROOT, HEALTH} =>
               ~Called(p, "verify_token") /\ ~Called(p, "security")
        /\ p.req.route = ROOT /\ p.pc = "done" =>
               p.resp = [status |-> 200,
                         body |-> [message |-> "Welcome to DevHub API"],
                         headers |-> {}]
        /\ p.req.route = HEALTH /\ p.pc = "done" =>
               p.resp = [status |-> 200,
                         body |-> [status |-> "healthy", service |-> "devhub-api"],
                         headers |-> {}]

C2_Witness ==
    /\ Len(procs) = 2
    /\ procs[1].pc = "done"
    /\ procs[1].req.route = CREATE_USER
    /\ procs[1].resp.status = 200
    /\ procs[2].pc = "done"
    /\ procs[2].req.route = HEALTH
    /\ BearerTokenIs(procs[2].req, wrong_token)
    /\ procs[2].resp.status = 200

(***************************************************************************)
(* C3: with the valid token, get_user answers HTTP 400 "Invalid user ID"   *)
(* for every integer user_id <= 0 and raises nothing for user_id >= 1.     *)
(***************************************************************************)
C3_NonPositiveIdRejected ==
    \A p \in Procs :
        (/\ p.pc = "done"
         /\ p.req.route = GET_USER
         /\ BearerTokenIs(p.req, valid_token)
         /\ p.req.user_id.int)
        => /\ p.req.user_id.val <= 0 =>
                  p.resp = [status |-> 400,
                            body |-> [detail |-> "Invalid user ID"],
                            headers |-> {}]
           /\ p.req.user_id.val >= 1 => p.resp.status = 200

C3_Witness ==
    \E p \in Procs :
        /\ p.pc = "done"
        /\ Called(p, "get_user")
        /\ p.req.user_id.val = 0
        /\ p.resp.status = 400

(***************************************************************************)
(* C4: UserCreate accepts a payload exactly when the username has 3 to 50  *)
(* characters and the email has exactly one "@" with text before it and,   *)
(* after it, text, a "." and text; create_user's body never runs on any    *)
(* other payload.                                                          *)
(***************************************************************************)
C4_SchemaAccepts ==
    \A p \in Procs :
        /\ p.req.route = CREATE_USER /\ (p.pc = "endpoint" \/ Called(p, "create_user"))
               => PayloadShape(p.req.user)
        /\ p.req.route = CREATE_USER /\ Called(p, "validation")
               => ~PayloadShape(p.req.user)

C4_Witness ==
    \E p \in Procs :
        /\ Called(p, "validation")
        /\ Len(p.req.user.username) = 50
        /\ CountOf("@", p.req.user.email) = 2
        /\ p.resp.status = 422

(***************************************************************************)
(* C5: POST /users with the valid token and a valid payload answers a      *)
(* UserResponse with the submitted username and email and the id 1, so     *)
(* that any two creations answer the same id.                              *)
(***************************************************************************)
C5_CreateEchoesWithIdOne ==
    /\ \A p \in Procs :
          (/\ p.pc = "done"
           /\ p.req.route = CREATE_USER
           /\ BearerTokenIs(p.req, valid_token)
           /\ PayloadShape(p.req.user))
          => p.resp = [status |-> 200,
                       body |-> [id |-> 1,
                                 username |-> p.req.user.username,
                                 email |-> p.req.user.email],
                       headers |-> {}]
    /\ \A p, q \in Procs :
          Called(p, "create_user") /\ Called(q, "create_user")
          => p.resp.body.id = q.resp.body.id

C5_Witness ==
    /\ Len(procs) = 2
    /\ Called(procs[1], "create_user")
    /\ Called(procs[2], "create_user")
    /\ procs[1].resp.body.username # procs[2].resp.body.username
    /\ procs[1].resp.body.id = procs[2].resp.body.id

(***************************************************************************)
(* C6: GET /users/{user_id} with the valid token and user_id >= 1 answers  *)
(* the requested id with the username "john_doe" and the email             *)
(* "john@example.com", whatever POST /users created before.                *)
(***************************************************************************)
C6_GetUserIsConstant ==
    \A p \in Procs :
        (/\ p.pc = "done"
         /\ p.req.route = GET_USER
         /\ BearerTokenIs(p.req, valid_token)
         /\ p.req.user_id.int
         /\ p.req.user_id.val >= 1)
        => p.resp = [status |-> 200,
                     body |-> [id |-> p.req.user_id.val,
                               username |-> <<"j", "o", "h", "n", "_", "d", "o", "e">>,
                               email |-> <<"j", "o", "h", "n", "@", "e", "x", "a",
                                           "m", "p", "l", "e", ".", "c", "o", "m">>],
                     headers |-> {}]

C6_Witness ==
    /\ Len(procs) = 2
    /\ Called(procs[1], "create_user")
    /\ log # <<>>
    /\ Called(procs[2], "get_user")
    /\ procs[2].req.user_id.val = 2
    /\ procs[2].resp.status = 200

(***************************************************************************)
(* C7: the bodies of create_user and get_user run, and a protected route   *)
(* answers 200, only for requests whose bearer token is "valid-token".     *)
(***************************************************************************)
C7_ProtectedNeedsToken ==
    \A p \in Procs :
        (\/ Called(p, "create_user")
         \/ Called(p, "get_user")
         \/ Protected(p.req) /\ p.pc = "endpoint"
         \/ Protected(p.req) /\ p.pc = "done" /\ p.resp.status = 200)
        => BearerTokenIs(p.req, valid_token)

C7_Witness ==
    /\ Len(procs) = 2
    /\ Called(procs[1], "create_user")
    /\ procs[2].pc = "done"
    /\ Protected(procs[2].req)
    /\ BearerTokenIs(procs[2].req, wrong_token)
    /\ procs[2].resp = Unauthorized

(***************************************************************************)
(* C8: the response to a request depends on the request alone: two equal   *)
(* requests get equal responses, whatever was served before or between.    *)
(***************************************************************************)
C8_ResponseDependsOnRequestOnly ==
    \A p, q \in Procs :
        p.pc = "done" /\ q.pc = "done" /\ p.req = q.req => p.resp = q.resp

C8_Witness ==
    /\ Len(procs) = 3
    /\ \A i \in 1..3 : procs[i].pc = "done"
    /\ procs[1].req = procs[3].req
    /\ Called(procs[1], "create_user")
    /\ Called(procs[2], "create_user")
    /\ procs[2].req # procs[1].req
    /\ procs[1].resp = procs[3].resp

====
